---- MODULE Spec2Model ----
(***************************************************************************)
(* Model of src/src/main.mts: the Ramses CL pool tagger.                   *)
(*                                                                         *)
(* returnTags pages through a subgraph with a timestamp cursor, turns      *)
(* every pool of a page into a ContractTag (transformPoolsToTags), drops   *)
(* tags whose address was already seen and returns the accumulated tags.   *)
(*                                                                         *)
(* Text is modelled as a sequence of one-character strings, so that        *)
(* length, slice and the markup regular expression are computed and not    *)
(* assumed.  A field that is absent (null/undefined) in a JSON record is   *)
(* a field that is not in the DOMAIN of the record.                        *)
(***************************************************************************)
EXTENDS Integers, Sequences, FiniteSets, TLC

VARIABLES
    pc,                 \* position of the returnTags call / of the transformer call
    chainId,            \* returnTags argument
    apiKey,             \* returnTags argument
    lastTimestamp,      \* main.mts:220
    allTags,            \* main.mts:221
    isMore,             \* main.mts:222
    counter,            \* main.mts:223
    seenAddr,           \* main.mts:224
    poolsLength,        \* pools.length of the page fetched last (main.mts:226,237)
    poolsLastTimestamp, \* pools[pools.length - 1].createdAtTimestamp of that page
    fetchCalls,         \* number of fetchPools invocations so far (main.mts:228)
    fullPages,          \* number of fetched pages that held exactly PAGE pools
    cursorArg,          \* lastTimestamp argument of the latest fetchPools call
    lastFetch,          \* outcome of the latest fetchPools call
    firstTags,          \* per address, the first tag the transformer emitted for it
    droppedDuplicate,   \* TRUE once the seenAddr filter has dropped a tag
    returned,           \* TRUE once returnTags has returned (main.mts:251)
    result,             \* the value returnTags returned
    thrown,             \* the error returnTags rejected with
    source,             \* the subgraph's pools, in its answer order
    pools,              \* argument of a transformPoolsToTags call
    tags                \* result of that transformPoolsToTags call

vars == <<pc, chainId, apiKey, lastTimestamp, allTags, isMore, counter, seenAddr,
          poolsLength, poolsLastTimestamp, fullPages, fetchCalls, cursorArg, lastFetch,
          firstTags, droppedDuplicate, returned, result, thrown, source, pools, tags>>

driverVars == <<chainId, apiKey, lastTimestamp, allTags, isMore, counter, seenAddr,
                poolsLength, poolsLastTimestamp, fullPages, fetchCalls, cursorArg, lastFetch,
                firstTags, droppedDuplicate, returned, result, thrown, source>>

-----------------------------------------------------------------------------
(* Bounds of the model *)

\* Page size.  The source asks for `first: 1000` and continues while
\* pools.length === 1000; the model keeps the comparison and scales the number.
PAGE == 2

\* fetchPools calls explored per returnTags call
MaxFetches == 3

\* longest token symbol given to the label builder
MaxSymbolLen == 22

\* pools held by the subgraph in the honest-source specification
MaxPools == 4

\* largest createdAtTimestamp of the honest source
MaxTime == 3

(* Program constants *)

\* the label budget, main.mts:152 and main.mts:171-172
LabelMax == 50

\* characters reserved for two "...", main.mts:160
reserved == 6

\* the only supported chain, main.mts:217
ARBITRUM == 42161

-----------------------------------------------------------------------------
(* Text helpers: JavaScript string operations on sequences of characters *)

Min(a, b) == IF a < b THEN a ELSE b
Max(a, b) == IF a > b THEN a ELSE b

\* String.prototype.slice(0, end): a negative end counts from the end of the text
Slice0(text, end) ==
    LET e == IF end < 0 THEN Max(Len(text) + end, 0) ELSE Min(end, Len(text))
    IN  SubSeq(text, 1, e)

\* text.endsWith(tail)
EndsWith(text, tail) ==
    /\ Len(tail) <= Len(text)
    /\ SubSeq(text, Len(text) - Len(tail) + 1, Len(text)) = tail

DigitChars == <<"0", "1", "2", "3", "4", "5", "6", "7", "8", "9">>

DigitValue(c) == CHOOSE d \in 0..9 : DigitChars[d + 1] = c

\* parseFloat of a text of decimal digits
RECURSIVE parseFloat(_)
parseFloat(text) ==
    IF text = <<>> THEN 0
    ELSE 10 * parseFloat(SubSeq(text, 1, Len(text) - 1)) + DigitValue(text[Len(text)])

\* decimal digits of a natural number
RECURSIVE NatToText(_)
NatToText(n) ==
    IF n < 10 THEN <<DigitChars[n + 1]>>
    ELSE NatToText(n \div 10) \o <<DigitChars[(n % 10) + 1]>>

\* (n / 10000).toFixed(2): n/10000 rounded to the nearest hundredth.  The fee
\* tiers of the model are never exactly half way between two hundredths.
toFixed2(n) ==
    LET h == (n + 50) \div 100
    IN  NatToText(h \div 100) \o <<".">>
            \o <<DigitChars[((h % 100) \div 10) + 1], DigitChars[(h % 10) + 1]>>

-----------------------------------------------------------------------------
(* Sanitizer *)

\* /<[^>]+>/.test(text)
containsHtmlOrMarkdown(text) ==
    \E i \in 1..Len(text) : \E j \in (i + 2)..Len(text) :
        /\ text[i] = "<"
        /\ text[j] = ">"
        /\ \A k \in (i + 1)..(j - 1) : text[k] # ">"

-----------------------------------------------------------------------------
(* Record transformer and label builder *)

Has(rec, f) == f \in DOMAIN rec

token0Invalid(pool) ==
    containsHtmlOrMarkdown(pool.token0.name) \/ containsHtmlOrMarkdown(pool.token0.symbol)

token1Invalid(pool) ==
    containsHtmlOrMarkdown(pool.token1.name) \/ containsHtmlOrMarkdown(pool.token1.symbol)

\* the body of pools.forEach: TRUE iff the pool is pushed to validPools
isValidPool(pool) ==
    IF ~Has(pool, "token0") \/ ~Has(pool, "token1") THEN FALSE
    ELSE ~(token0Invalid(pool) \/ token1Invalid(pool))

\* a forEach that stops at the first record without both tokens
RECURSIVE validPoolsUntilMissing(_)
validPoolsUntilMissing(page) ==
    IF page = <<>> THEN <<>>
    ELSE IF ~Has(page[1], "token0") \/ ~Has(page[1], "token1") THEN <<>>
    ELSE (IF isValidPool(page[1]) THEN <<page[1]>> ELSE <<>>)
            \o validPoolsUntilMissing(Tail(page))

validPools(page) == SelectSeq(page, isValidPool)

getFeePct(pool) ==
    IF pool.feeTier # <<>> THEN toFixed2(parseFloat(pool.feeTier)) \o <<"%">> ELSE <<>>

\* pool.tickSpacing ?? 'N/A'
tick(pool) == IF Has(pool, "tickSpacing") THEN pool.tickSpacing ELSE <<"N", "/", "A">>

suffix(pool) ==
    <<" ", "C", "L", " ", "P", "o", "o", "l", " ", "(">> \o getFeePct(pool)
        \o <<",", " ", "t", "i", "c", "k", ":", " ">> \o tick(pool) \o <<")">>

\* a budget that forgets the '/' separator
maxSymbolsLenNoSeparator(suffixText) == LabelMax - Len(suffixText)

\* const maxSymbolsLen = 50 - suffix.length - 1
maxSymbolsLen(suffixText) == LabelMax - Len(suffixText) - 1

\* const available = maxSymbolsLen - reserved
available(maxLen) == maxLen - reserved

\* the first allotment as available / 2 rounded up
len0RoundedUp(avail) == (avail + 1) \div 2

\* const half = Math.floor(available / 2); let len0 = Math.ceil(half)
len0(avail) ==
    LET half == avail \div 2
    IN  half

\* let len1 = Math.floor(available - len0)
len1(avail, l0) == avail - l0

ellipsis == <<".", ".", ".">>

\* symbolsText after the `if (symbolsText.length > maxSymbolsLen)` block
symbolsText(symbol0, symbol1, suffixText) ==
    LET maxLen == maxSymbolsLen(suffixText)
        text   == symbol0 \o <<"/">> \o symbol1
    IN  IF Len(text) > maxLen
        THEN LET avail == available(maxLen)
                 l0    == len0(avail)
                 l1    == len1(avail, l0)
                 s0    == IF Len(symbol0) > l0 THEN Slice0(symbol0, l0) \o ellipsis ELSE symbol0
                 s1    == IF Len(symbol1) > l1 THEN Slice0(symbol1, l1) \o ellipsis ELSE symbol1
             IN  s0 \o <<"/">> \o s1
        ELSE text

\* the label without the final check of its length
tagNameUnclamped(pool) ==
    LET suffixText == suffix(pool)
    IN  symbolsText(pool.token0.symbol, pool.token1.symbol, suffixText) \o suffixText

\* the "Public Name Tag" of a valid pool
tagName(pool) ==
    LET suffixText == suffix(pool)
        name == symbolsText(pool.token0.symbol, pool.token1.symbol, suffixText) \o suffixText
    IN  IF Len(name) > LabelMax THEN Slice0(name, LabelMax) ELSE name

\* `eip155:${chainId}:${pool.id}`
Address(cid, id) == <<"eip155", cid, id>>

publicNote(pool) ==
    <<"R", "a", "m", "s", "e", "s", " ", "C", "L", " ", "p", "o", "o", "l", " ", "f", "o", "r", " ">>
        \o pool.token0.symbol \o <<" ", "(">> \o pool.token0.name \o <<")", " ", "/", " ">>
        \o pool.token1.symbol \o <<" ", "(">> \o pool.token1.name
        \o <<")", ",", " ", "f", "e", "e", " ", "t", "i", "e", "r", ":", " ">> \o pool.feeTier
        \o <<",", " ", "t", "i", "c", "k", " ", "s", "p", "a", "c", "i", "n", "g", ":", " ">>
        \o tick(pool)

makeTag(cid, pool) ==
    [ x \in {"Contract Address", "Public Name Tag", "Project Name",
             "UI/Website Link", "Public Note"} |->
        CASE x = "Contract Address" -> Address(cid, pool.id)
          [] x = "Public Name Tag"  -> tagName(pool)
          [] x = "Project Name"     -> "Ramses Concentrated Liquidity"
          [] x = "UI/Website Link"  -> "https://ramses.exchange"
          [] x = "Public Note"      -> publicNote(pool) ]

transformPoolsToTags(cid, page) ==
    LET valid == validPools(page)
    IN  [ i \in 1..Len(valid) |-> makeTag(cid, valid[i]) ]

-----------------------------------------------------------------------------
(* Inputs *)

LongSymbol0 == <<"E", "X", "T", "R", "E", "M", "E", "L", "Y", "L", "O", "N", "G", "T", "O", "K", "E", "N", "N", "A", "M", "E", "X", "Y", "Z">>
LongSymbol1 == <<"A", "N", "O", "T", "H", "E", "R", "L", "O", "N", "G", "N", "A", "M", "E", "A", "N", "O", "T", "H", "E", "R", "X", "Y", "Z">>
TickDigits  == <<"6", "0", "0", "4", "5", "6", "7", "8", "9", "0", "1", "2", "3", "4", "5", "6", "7", "8", "9", "0", "1", "2", "3", "4", "5", "6", "7", "8", "9", "0">>

Token(name, symbol) == [name |-> name, symbol |-> symbol]

NameT == <<"T", "o", "k", "e", "n">>

\* fee tiers of the label inputs: "", "100", "500", "3000", "10000"
FeeTiers == { <<>>, <<"1", "0", "0">>, <<"5", "0", "0">>, <<"3", "0", "0", "0">>,
              <<"1", "0", "0", "0", "0">> }

\* lengths of the tick-spacing texts of the label inputs
TickLens == {0, 1, 2, 3, 19, 20, 27}

BasePool(s0, s1, fee) ==
    [id |-> "0xa", createdAtTimestamp |-> 1, feeTier |-> fee,
     token0 |-> Token(NameT, s0), token1 |-> Token(NameT, s1)]

WithTick(pool, t) == pool @@ [tickSpacing |-> t]

\* a one-pool page for the label builder: symbols of n0 and n1 characters,
\* and a tickSpacing of t digits when the pool has one
LabelInput(n0, n1, fee, hasTick, t) ==
    LET pool == BasePool(SubSeq(LongSymbol0, 1, n0), SubSeq(LongSymbol1, 1, n1), fee)
    IN  <<IF hasTick THEN WithTick(pool, SubSeq(TickDigits, 1, t)) ELSE pool>>

Fee3000 == <<"3", "0", "0", "0">>
Fee500  == <<"5", "0", "0">>

\* a pool of each kind: two long symbols; markup in a token name; token1
\* absent; markup split over the two symbols, no tickSpacing
PoolOfKind(kind, id, ts) ==
    LET base == [id |-> id, createdAtTimestamp |-> ts]
    IN  CASE kind = "long" ->
               base @@ [feeTier |-> Fee3000, tickSpacing |-> <<"6", "0">>,
                        token0 |-> Token(NameT, SubSeq(LongSymbol0, 1, 22)),
                        token1 |-> Token(NameT, SubSeq(LongSymbol1, 1, 15))]
          [] kind = "markup" ->
               base @@ [feeTier |-> Fee500, tickSpacing |-> <<"1", "0">>,
                        token0 |-> Token(<<"<", "b", ">", "x", "<", "/", "b", ">">>, <<"W", "E", "T", "H">>),
                        token1 |-> Token(NameT, <<"U", "S", "D", "C">>)]
          [] kind = "noToken1" ->
               base @@ [feeTier |-> Fee500, tickSpacing |-> <<"1", "0">>,
                        token0 |-> Token(NameT, <<"W", "E", "T", "H">>)]
          [] kind = "split" ->
               base @@ [feeTier |-> Fee500,
                        token0 |-> Token(NameT, <<"<", "a">>),
                        token1 |-> Token(NameT, <<"b", ">">>)]

\* the pools an arbitrary source may deliver: two ids, two creation
\* timestamps; each id comes with two different accepted contents and with a
\* rejected one, each timestamp with accepted and with rejected pools
PoolUniverse ==
    { PoolOfKind("long", "0xa", 1),     PoolOfKind("split", "0xa", 2),
      PoolOfKind("noToken1", "0xa", 1), PoolOfKind("long", "0xb", 2),
      PoolOfKind("split", "0xb", 1),    PoolOfKind("markup", "0xb", 2) }

\* the responses fetch() and resp.json() may produce without a page: a
\* non-2xx status, an envelope with an error list (empty or not), one without
\* data, and one with data but without pools
FailureResponses ==
    { [ok |-> FALSE, status |-> 500],
      [ok |-> TRUE, json |-> [errors |-> <<"indexing error">>]],
      [ok |-> TRUE, json |-> [errors |-> <<>>, data |-> [pools |-> <<>>]]],
      [ok |-> TRUE, json |-> [extensions |-> "none"]],
      [ok |-> TRUE, json |-> [data |-> [meta |-> "none"]]] }

\* the response that carries a page
PageResponse(page) == [ok |-> TRUE, json |-> [data |-> [pools |-> page]]]

ChainIds == {"42161", "1", "0xa4b1", ""}
ApiKeys == {"key", ""}

-----------------------------------------------------------------------------
(* Page fetcher *)

\* the outcome of fetchPools for a response: the page, or the Error thrown
fetchPools(resp) ==
    IF ~resp.ok
        THEN [threw |-> TRUE, message |-> "HTTP error"]
    ELSE IF Has(resp.json, "errors")
        THEN [threw |-> TRUE, message |-> "GraphQL errors occurred: see logs for details."]
    ELSE IF ~Has(resp.json, "data") \/ ~Has(resp.json.data, "pools")
        THEN [threw |-> TRUE, message |-> "No pools data found."]
    ELSE [threw |-> FALSE, pools |-> resp.json.data.pools]

-----------------------------------------------------------------------------
(* Pagination driver *)

\* Number(chainId)
Number(text) ==
    CASE text = "42161"  -> 42161
      [] text = "0xa4b1" -> 42161
      [] text = "1"      -> 1
      [] text = ""       -> 0

\* a filter that never consults seenAddr
filterNothing(tagSeq, seen) ==
    [kept |-> tagSeq,
     seen |-> seen \cup { tagSeq[i]["Contract Address"] : i \in 1..Len(tagSeq) }]

\* .filter(tag => ...) with the seenAddr set: the tags kept and the set after
RECURSIVE filterSeen(_, _)
filterSeen(tagSeq, seen) ==
    IF tagSeq = <<>> THEN [kept |-> <<>>, seen |-> seen]
    ELSE LET tag  == tagSeq[1]
             addr == tag["Contract Address"]
         IN  IF addr \in seen
             THEN filterSeen(Tail(tagSeq), seen)
             ELSE LET rest == filterSeen(Tail(tagSeq), seen \cup {addr})
                  IN  [kept |-> <<tag>> \o rest.kept, seen |-> rest.seen]

\* the continuation decided on the tags that survived
moreAfterKept(page, tagsForPools) == Len(tagsForPools) = PAGE

\* isMore = pools.length === 1000
moreAfter(page, tagsForPools) == Len(page) = PAGE

\* the two checks at the head of returnTags, key first
validationErrorKeyFirst(c, k) ==
    IF k = "" THEN "API key is required"
    ELSE IF Number(c) # ARBITRUM THEN "Unsupported Chain ID"
    ELSE "none"

\* the two checks at the head of returnTags: the message thrown, if any
validationError(c, k) ==
    IF Number(c) # ARBITRUM THEN "Unsupported Chain ID"
    ELSE IF k = "" THEN "API key is required"
    ELSE "none"

\* entry of returnTags up to the first await: either a check throws, or the
\* locals are set and the first fetchPools call is made
Call(c, k) ==
    /\ pc = "idle"
    /\ chainId' = c
    /\ apiKey' = k
    /\ IF validationError(c, k) # "none"
       THEN /\ pc' = "failed"
            /\ thrown' = [message |-> validationError(c, k)]
            /\ UNCHANGED <<lastTimestamp, allTags, isMore, counter, seenAddr,
                           fetchCalls, cursorArg>>
       ELSE /\ pc' = "awaitFetch"
            /\ lastTimestamp' = 0
            /\ allTags' = <<>>
            /\ isMore' = TRUE
            /\ counter' = 0
            /\ seenAddr' = {}
            /\ fetchCalls' = fetchCalls + 1
            /\ cursorArg' = 0
            /\ UNCHANGED thrown
    /\ UNCHANGED <<poolsLength, poolsLastTimestamp, fullPages, lastFetch, firstTags,
                   droppedDuplicate, returned, result, source, pools, tags>>

\* a catch block that gives up the loop and returns what was accumulated
ReturnPartial(err) ==
    /\ pc' = "done"
    /\ returned' = TRUE
    /\ result' = allTags
    /\ lastFetch' = err.message
    /\ UNCHANGED <<lastTimestamp, allTags, isMore, counter, seenAddr, poolsLength,
                   poolsLastTimestamp, fullPages, fetchCalls, cursorArg, firstTags,
                   droppedDuplicate, thrown>>

\* the catch block: the error is wrapped and rethrown
Rethrow(err) ==
    /\ pc' = "failed"
    /\ thrown' = [message |-> "Failed fetching data", cause |-> err.message]
    /\ lastFetch' = err.message
    /\ UNCHANGED <<lastTimestamp, allTags, isMore, counter, seenAddr, poolsLength,
                   poolsLastTimestamp, fullPages, fetchCalls, cursorArg, firstTags,
                   droppedDuplicate, returned, result>>

\* the record of first emissions: a tag joins unless its address is recorded
RECURSIVE FirstByAddress(_, _)
FirstByAddress(tagSeq, firsts) ==
    IF tagSeq = <<>> THEN firsts
    ELSE IF \E t \in firsts : t["Contract Address"] = tagSeq[1]["Contract Address"]
         THEN FirstByAddress(Tail(tagSeq), firsts)
         ELSE FirstByAddress(Tail(tagSeq), firsts \cup {tagSeq[1]})

\* the rest of the loop body for a fetched page, and the loop's next turn:
\* either the next fetchPools call or the return
Accumulate(page) ==
    LET out  == transformPoolsToTags(chainId, page)
        f    == filterSeen(out, seenAddr)
        more == moreAfter(page, f.kept)
        next == IF more THEN page[Len(page)].createdAtTimestamp ELSE lastTimestamp
    IN  /\ more => fetchCalls < MaxFetches
        /\ allTags' = allTags \o f.kept
        /\ seenAddr' = f.seen
        /\ counter' = counter + 1
        /\ isMore' = more
        /\ lastTimestamp' = next
        /\ lastFetch' = "ok"
        /\ poolsLength' = Len(page)
        /\ poolsLastTimestamp' = IF page = <<>> THEN 0 ELSE page[Len(page)].createdAtTimestamp
        /\ fullPages' = IF Len(page) = PAGE THEN fullPages + 1 ELSE fullPages
        /\ firstTags' = FirstByAddress(out, firstTags)
        /\ droppedDuplicate' = (droppedDuplicate \/ Len(f.kept) < Len(out))
        /\ IF more
           THEN /\ pc' = "awaitFetch"
                /\ fetchCalls' = fetchCalls + 1
                /\ cursorArg' = next
                /\ UNCHANGED <<returned, result>>
           ELSE /\ pc' = "done"
                /\ returned' = TRUE
                /\ result' = allTags \o f.kept
                /\ UNCHANGED <<fetchCalls, cursorArg>>
        /\ UNCHANGED thrown

\* returnTags from the answer of the awaited fetchPools call to the next await
Iterate(resp) ==
    /\ pc = "awaitFetch"
    /\ LET r == fetchPools(resp)
       IN  IF r.threw THEN Rethrow(r) ELSE Accumulate(r.pools)
    /\ UNCHANGED <<chainId, apiKey, source, pools, tags>>

-----------------------------------------------------------------------------
(* The subgraph as an honest source *)

\* pools(first: 1000, orderBy: createdAtTimestamp, orderDirection: asc,
\*       where: { createdAtTimestamp_gt: $lastTimestamp })
QueryAnswer(cursor) ==
    LET after(pool) == pool.createdAtTimestamp > cursor
        matching == SelectSeq(source, after)
    IN  SubSeq(matching, 1, Min(Len(matching), PAGE))

DbIds == <<"0x1", "0x2", "0x3", "0x4", "0x5", "0x6">>

DbKinds == {"long", "markup", "noToken1"}

\* the subgraph's contents: pools with distinct ids, in the order the
\* subgraph answers (ascending createdAtTimestamp)
DbSources ==
    { [ i \in 1..n |-> PoolOfKind(ks[i], DbIds[i], ts[i]) ] :
        <<n, ts, ks>> \in
            { <<n, ts, ks>> \in UNION { {k} \X [1..k -> 1..MaxTime] \X [1..k -> DbKinds]
                                        : k \in 0..MaxPools } :
                \A i \in 1..(n - 1) : ts[i] <= ts[i + 1] } }

-----------------------------------------------------------------------------
(* Specifications *)

NoCall ==
    /\ lastTimestamp = 0 /\ allTags = <<>> /\ isMore = FALSE /\ counter = 0
    /\ seenAddr = {} /\ poolsLength = 0 /\ poolsLastTimestamp = 0 /\ fullPages = 0
    /\ fetchCalls = 0 /\ cursorArg = 0 /\ lastFetch = "none"
    /\ firstTags = {} /\ droppedDuplicate = FALSE
    /\ returned = FALSE /\ result = <<>> /\ thrown = [message |-> "none"]

\* returnTags against a source that may answer anything
Init ==
    /\ pc = "idle"
    /\ chainId = "" /\ apiKey = ""
    /\ NoCall
    /\ source = <<>> /\ pools = <<>> /\ tags = <<>>

Start == \E c \in ChainIds, k \in ApiKeys : Call(c, k)

Fetch ==
    \/ \E resp \in FailureResponses : Iterate(resp)
    \/ \E n \in 0..PAGE : \E page \in [1..n -> PoolUniverse] : Iterate(PageResponse(page))

Next == Start \/ Fetch

Spec == Init /\ [][Next]_vars

\* returnTags against a subgraph that answers the query
InitDb ==
    /\ pc = "idle"
    /\ chainId = "" /\ apiKey = ""
    /\ NoCall
    /\ source \in DbSources
    /\ pools = <<>> /\ tags = <<>>

FetchDb == Iterate(PageResponse(QueryAnswer(cursorArg)))

NextDb == Start \/ FetchDb

SpecDb == InitDb /\ [][NextDb]_vars

\* one call of transformPoolsToTags
Transform ==
    /\ pc = "transform"
    /\ tags' = transformPoolsToTags(chainId, pools)
    /\ pc' = "transformed"
    /\ UNCHANGED <<driverVars, pools>>

InitTransform ==
    /\ pc = "transform"
    /\ chainId = "42161" /\ apiKey = "key"
    /\ NoCall
    /\ source = <<>>
    /\ \/ \E n \in 0..PAGE : pools \in [1..n -> PoolUniverse]
       \/ \E n0 \in 0..MaxSymbolLen, n1 \in 0..MaxSymbolLen, fee \in FeeTiers, t \in TickLens :
            pools = LabelInput(n0, n1, fee, TRUE, t)
       \/ \E n0 \in 0..MaxSymbolLen, n1 \in 0..MaxSymbolLen, fee \in FeeTiers :
            pools = LabelInput(n0, n1, fee, FALSE, 0)
    /\ tags = <<>>

NextTransform == Transform

SpecTransform == InitTransform /\ [][NextTransform]_vars

-----------------------------------------------------------------------------
(* Properties *)

Label(tag) == tag["Public Name Tag"]

Addr(tag) == tag["Contract Address"]

\* a record the transformer is to accept: both token sub-records present and
\* no markup in any of the four token texts
Acceptable(pool) ==
    /\ Has(pool, "token0")
    /\ Has(pool, "token1")
    /\ \A text \in {pool.token0.name, pool.token0.symbol,
                    pool.token1.name, pool.token1.symbol} :
            ~containsHtmlOrMarkdown(text)

\* C1: every tag the transformer emits, and so every tag returnTags can
\* accumulate and return, has a label of at most 50 characters, whatever the
\* symbols, the fee tier and the tick spacing of its pool.
C1_LabelAtMost50 ==
    \A i \in 1..Len(tags) : Len(Label(tags[i])) <= 50

\* C1 witness: a pool whose suffix alone is longer than 50 characters was
\* transformed, and its label has exactly 50.
C1_Witness ==
    /\ pc = "transformed"
    /\ Len(pools) = 1
    /\ Len(tags) = 1
    /\ Len(suffix(pools[1])) > 50
    /\ Len(Label(tags[1])) = 50

\* C2: at every point of a returnTags call no two accumulated tags have the
\* same address, the accumulated tags are exactly the first tag emitted for
\* each address, and the returned collection is the accumulated one.
C2_UniqueAddressFirstWins ==
    /\ \A i, j \in 1..Len(allTags) : i # j => Addr(allTags[i]) # Addr(allTags[j])
    /\ { allTags[i] : i \in 1..Len(allTags) } = firstTags
    /\ seenAddr = { Addr(t) : t \in firstTags }
    /\ returned => result = allTags

\* C2 witness: a call returned two tags of two pages after the filter had
\* dropped a later tag of an address already seen.
C2_Witness ==
    /\ returned
    /\ Len(result) = 2
    /\ droppedDuplicate
    /\ counter >= 2

\* C3 (as claimed): when returnTags returns against a subgraph that answers
\* the query, every pool of the subgraph with both tokens and no markup has
\* its tag in the returned collection.
C3_Complete ==
    returned =>
        \A i \in 1..Len(source) :
            Acceptable(source[i]) =>
                \E j \in 1..Len(result) : Addr(result[j]) = Address(chainId, source[i].id)

\* C4: the fetch is invoked once more than the number of pages that held
\* exactly PAGE raw records; the first fetch uses cursor 0 and every later one
\* the createdAtTimestamp of the last raw record of the page before it; the
\* call returns exactly after the first page with fewer than PAGE raw records.
C4_FetchCount ==
    /\ pc \in {"awaitFetch", "done"} => fetchCalls = fullPages + 1
    /\ pc = "awaitFetch" =>
            /\ counter = fullPages
            /\ cursorArg = IF fetchCalls = 1 THEN 0 ELSE poolsLastTimestamp
            /\ fetchCalls > 1 => poolsLength = PAGE
    /\ pc = "done" =>
            /\ returned
            /\ poolsLength < PAGE
            /\ counter = fetchCalls

\* C4 witness: two full pages of which no record survived validation, then a
\* short page: three fetches and the call returned.
C4_Witness ==
    /\ pc = "done"
    /\ fullPages = 2
    /\ fetchCalls = 3
    /\ allTags = <<>>

\* C5: once a fetchPools call has failed, returnTags has ended in failure with
\* the wrapped error, has returned nothing, has made no call after the failing
\* one and makes no further step.
C5_FetchFailureAborts ==
    lastFetch \notin {"none", "ok"} =>
        /\ pc = "failed"
        /\ thrown = [message |-> "Failed fetching data", cause |-> lastFetch]
        /\ ~returned
        /\ result = <<>>
        /\ fetchCalls = counter + 1
        /\ ~ENABLED Fetch

\* C5 witness: the second fetch failed with a transport error after the
\* first page had been accumulated.
C5_Witness ==
    /\ pc = "failed"
    /\ lastFetch = "HTTP error"
    /\ counter = 1
    /\ Len(allTags) >= 1

\* C6: a call whose chainId is not numerically 42161 has failed with the
\* unsupported-chain error, a call whose chainId is numerically 42161 and
\* whose apiKey is empty has failed with the missing-credential error, and
\* neither has invoked the page fetch.
C6_ValidatesFirst ==
    pc # "idle" =>
        /\ Number(chainId) # 42161 =>
                pc = "failed" /\ thrown = [message |-> "Unsupported Chain ID"] /\ fetchCalls = 0
        /\ (Number(chainId) = 42161 /\ apiKey = "") =>
                pc = "failed" /\ thrown = [message |-> "API key is required"] /\ fetchCalls = 0

\* C6 witness: returnTags("42161", "") has failed.
C6_Witness ==
    /\ pc = "failed"
    /\ chainId = "42161"
    /\ apiKey = ""
    /\ thrown = [message |-> "API key is required"]

\* C7 (as claimed): no label of an accumulated tag contains an
\* angle-bracket-delimited span.
C7_NoMarkupInLabel ==
    \A i \in 1..Len(allTags) : ~containsHtmlOrMarkdown(Label(allTags[i]))

\* C8 (as claimed): the label of every emitted tag ends with the complete
\* suffix of its pool.
C8_SuffixNeverTruncated ==
    pc = "transformed" =>
        \A i \in 1..Len(tags) :
            EndsWith(Label(tags[i]), suffix(SelectSeq(pools, Acceptable)[i]))

\* C8 (amended): when the suffix of a pool has at most 43 characters, the
\* label of its tag ends with the complete suffix.
C8_SuffixKeptUpTo43 ==
    pc = "transformed" =>
        \A i \in 1..Len(tags) :
            LET pool == SelectSeq(pools, Acceptable)[i]
            IN  Len(suffix(pool)) <= 43 => EndsWith(Label(tags[i]), suffix(pool))

\* C8 witness: two long symbols were shortened and the label has 50 characters
\* ending with " CL Pool (0.30%, tick: 60)".
C8_Witness ==
    /\ pc = "transformed"
    /\ Len(tags) = 1
    /\ Label(tags[1]) =
        <<"E", "X", "T", "R", "E", "M", "E", "L", ".", ".", ".", "/", "A", "N", "O", "T", "H", "E", "R", "L", "O", ".", ".", ".", " ", "C", "L", " ", "P", "o", "o", "l", " ", "(", "0", ".", "3", "0", "%", ",", " ", "t", "i", "c", "k", ":", " ", "6", "0", ")">>

\* address and label of the tags expected for `page`, record by record
ExpectedOf(cid, page) ==
    LET acc == SelectSeq(page, Acceptable)
    IN  [ i \in 1..Len(acc) |-> <<Address(cid, acc[i].id), tagName(acc[i])>> ]

\* C9: the transformer returns, in page order, exactly one tag for each record
\* that has both token sub-records and no markup in its token names and
\* symbols, and no tag for any other record.
C9_RejectionIsLocal ==
    pc = "transformed" =>
        [ i \in 1..Len(tags) |-> <<Addr(tags[i]), Label(tags[i])>> ] = ExpectedOf(chainId, pools)

\* C9 witness: a page whose first record has no token1 and whose second
\* record is accepted gave one tag.
C9_Witness ==
    /\ pc = "transformed"
    /\ Len(pools) = 2
    /\ ~Has(pools[1], "token1")
    /\ Acceptable(pools[2])
    /\ Len(tags) = 1

\* a symbol cut to an allotment: sliced and marked only when longer
CutTo(symbol, allotment) ==
    IF Len(symbol) > allotment THEN Slice0(symbol, allotment) \o <<".", ".", ".">> ELSE symbol

\* the label of a pool whose symbols get the allotments a0 and a1
LabelWith(pool, a0, a1) ==
    Slice0(CutTo(pool.token0.symbol, a0) \o <<"/">> \o CutTo(pool.token1.symbol, a1)
               \o suffix(pool), 50)

\* symbol0 + "/" + symbol1 is longer than 50 - length(suffix) - 1
TooLong(pool) ==
    Len(pool.token0.symbol) + 1 + Len(pool.token1.symbol) > 50 - Len(suffix(pool)) - 1

\* available = maxSymbolsLen - 6
Avail(pool) == 50 - Len(suffix(pool)) - 1 - 6

\* C10 (as claimed): when the symbols are too long, the first symbol is cut to
\* available/2 rounded up and the second to available/2 rounded down.
C10_FirstHalfRoundedUp ==
    (pc = "transformed" /\ Len(pools) = 1 /\ Len(tags) = 1 /\ TooLong(pools[1])) =>
        Label(tags[1]) =
            LabelWith(pools[1], (Avail(pools[1]) + 1) \div 2, Avail(pools[1]) \div 2)

\* C10 (amended): when the symbols are too long, the first symbol is cut to
\* available/2 rounded down and the second to available/2 rounded up.
C10_FirstHalfRoundedDown ==
    (pc = "transformed" /\ Len(pools) = 1 /\ Len(tags) = 1 /\ TooLong(pools[1])) =>
        Label(tags[1]) =
            LabelWith(pools[1], Avail(pools[1]) \div 2, (Avail(pools[1]) + 1) \div 2)

\* C10 witness: an odd budget of 17 was split 8 and 9 over two symbols that
\* are both longer than 9.
C10_Witness ==
    /\ pc = "transformed"
    /\ Len(pools) = 1
    /\ Len(tags) = 1
    /\ Avail(pools[1]) = 17
    /\ Len(pools[1].token0.symbol) > 9
    /\ Len(pools[1].token1.symbol) > 9
    /\ SubSeq(Label(tags[1]), 9, 12) = <<".", ".", ".", "/">>
    /\ SubSeq(Label(tags[1]), 22, 24) = <<".", ".", ".">>

====
